---- MODULE Spec2Model ----
(***************************************************************************)
(* Model of src/app/page.tsx: the App component of the kitchen display.    *)
(* State: the two useState cells (orders, selectedOrderId), the three      *)
(* useMemo caches, the EventSource created by the mount effect, the        *)
(* pending setTimeout callbacks and the console diagnostics.               *)
(* Every handler runs to completion on the event loop and React batches    *)
(* the state updates of one handler into one render, so one handler plus   *)
(* the render it causes is one action.                                     *)
(***************************************************************************)
EXTENDS Integers, Sequences, FiniteSets, TLC

\* ---------------------------------------------------------------- bounds
MaxOrders == 2      \* tickets the stream may create in a run
MaxClock == 1       \* Date.now() ranges over 0..MaxClock

\* ------------------------------------------------------------- constants
FirstOrderNumber == 101
NoSelection == 0    \* selectedOrderId = null
UUIDs == 1..MaxOrders   \* values crypto.randomUUID() may return

READY_CONNECTING == "CONNECTING"
READY_OPEN == "OPEN"
READY_CLOSED == "CLOSED"

OrderStatus == {"pending", "preparing", "completed"}

\* event.data strings the server may push
RawPayloads ==
  { "{meal:", "null", "{\"steps\":[]}", "{\"meal\":\"\",\"steps\":[]}",
    "{\"meal\":\"Panini\",\"steps\":[\"Toast bread\",\"Add filling\"]}",
    "{\"meal\":\"Soup\",\"steps\":[]}" }
NoData == "<none>"

\* the payloads that decode to an object with a non-empty meal
CarriesRecipe(raw) ==
  raw \in { "{\"meal\":\"Panini\",\"steps\":[\"Toast bread\",\"Add filling\"]}",
            "{\"meal\":\"Soup\",\"steps\":[]}" }

VARIABLES
  orders,            \* useState([]) : sequence of OrderTicket
  selectedOrderId,   \* useState(null)
  pendingOrders,     \* useMemo cache, deps [orders]
  activeOrders,      \* useMemo cache, deps [orders]
  completedOrders,   \* useMemo cache, deps []
  closureOrders,     \* `orders` as captured by the mount effect's closure
  readyState,        \* eventSource.readyState
  mounted,           \* the component is mounted
  timers,            \* pending setTimeout callbacks, oldest first; each
                     \* entry is the id handleUpdateStatus was called with
  now,               \* Date.now()
  lastData,          \* event.data of the message handled most recently
  validCount,        \* messages handled so far that carried a recipe
  errorLogged        \* console.error("SSE connection error:") was printed

vars == << orders, selectedOrderId, pendingOrders, activeOrders,
           completedOrders, closureOrders, readyState, mounted, timers, now,
           lastData, validCount, errorLogged >>

\* --------------------------------------------------------------- helpers
Range(s) == { s[i] : i \in 1..Len(s) }

RECURSIVE MaxOf(_)
MaxOf(S) ==
  IF S = {} THEN 0
  ELSE LET x == CHOOSE y \in S : TRUE
           m == MaxOf(S \ {x})
       IN IF x > m THEN x ELSE m

\* Array.prototype.filter on o.status === status
FilterByStatus(os, status) == SelectSeq(os, LAMBDA o : o.status = status)

\* JSON.parse(event.data): a thrown SyntaxError or the decoded value
JsNull == [type |-> "null"]
JsObject(fields) == [type |-> "object", fields |-> fields]
JSONParse(raw) ==
  CASE raw = "null" -> [ok |-> TRUE, value |-> JsNull]
    [] raw = "{\"steps\":[]}" ->
         [ok |-> TRUE, value |-> JsObject([steps |-> << >>])]
    [] raw = "{\"meal\":\"\",\"steps\":[]}" ->
         [ok |-> TRUE, value |-> JsObject([meal |-> "", steps |-> << >>])]
    [] raw = "{\"meal\":\"Panini\",\"steps\":[\"Toast bread\",\"Add filling\"]}" ->
         [ok |-> TRUE,
          value |-> JsObject([meal |-> "Panini",
                              steps |-> <<"Toast bread", "Add filling">>])]
    [] raw = "{\"meal\":\"Soup\",\"steps\":[]}" ->
         [ok |-> TRUE, value |-> JsObject([meal |-> "Soup", steps |-> << >>])]
    [] OTHER -> [ok |-> FALSE]

\* the test `data && data.meal`
MealTruthy_KeyOnly(data) ==
  data.type = "object" /\ "meal" \in DOMAIN data.fields
MealTruthy(data) ==
  data.type = "object" /\ "meal" \in DOMAIN data.fields
    /\ data.fields.meal # ""

\* What onmessage's try block does with event.data:
\*   "caught"  JSON.parse threw, or `data.meal` threw on null (catch branch)
\*   "ignored" the if-test was falsy
\*   "ticket"  the if-body ran
MessageOutcome(raw) ==
  LET r == JSONParse(raw) IN
  IF ~r.ok THEN "caught"
  ELSE IF r.value.type = "null" THEN "caught"
  ELSE IF MealTruthy(r.value) THEN "ticket"
  ELSE "ignored"

createNewTicket_Preparing(existingOrders, recipeData, uuid, time) ==
  [ id |-> uuid,
    orderNumber |->
      IF Len(existingOrders) > 0
        THEN MaxOf({ o.orderNumber : o \in Range(existingOrders) }) + 1
        ELSE FirstOrderNumber,
    recipe |-> recipeData,
    status |-> "preparing",
    timestamp |-> time ]
createNewTicket(existingOrders, recipeData, uuid, time) ==
  [ id |-> uuid,
    orderNumber |->
      IF Len(existingOrders) > 0
        THEN MaxOf({ o.orderNumber : o \in Range(existingOrders) }) + 1
        ELSE FirstOrderNumber,
    recipe |-> recipeData,
    status |-> "pending",
    timestamp |-> time ]

\* prevOrders.map(order => order.id === id ? {...order, status} : order)
MapStatus_All(prevOrders, id, newStatus) ==
  [ i \in 1..Len(prevOrders) |-> [prevOrders[i] EXCEPT !.status = newStatus] ]
MapStatus_Restamp(prevOrders, id, newStatus) ==
  [ i \in 1..Len(prevOrders) |->
      IF prevOrders[i].id = id
        THEN [prevOrders[i] EXCEPT !.status = newStatus, !.timestamp = now]
        ELSE prevOrders[i] ]
MapStatus(prevOrders, id, newStatus) ==
  [ i \in 1..Len(prevOrders) |->
      IF prevOrders[i].id = id
        THEN [prevOrders[i] EXCEPT !.status = newStatus]
        ELSE prevOrders[i] ]

\* orders.find(o => o.id === selectedOrderId) || null
HasSelectedOrder == \E i \in 1..Len(orders) : orders[i].id = selectedOrderId
selectedOrder ==
  orders[CHOOSE i \in 1..Len(orders) :
           /\ orders[i].id = selectedOrderId
           /\ \A j \in 1..(i - 1) : orders[j].id # selectedOrderId]

\* RecipeDetail: `order.status !== "completed" && <button ...>`
ControlsVisible_Always(order) == TRUE
ControlsVisible(order) == order.status # "completed"

\* the toggle button's argument
ToggleTarget(order) ==
  IF order.status = "pending" THEN "preparing" ELSE "pending"

\* ids of the TicketItem rows on screen
ClickableIds_Any == UUIDs
ClickableIds ==
  { t.id : t \in Range(activeOrders) \cup Range(pendingOrders) }

\* the render after the store became os: caches with deps [orders] are
\* recomputed, the cache with deps [] keeps its first value
Render(os) ==
  /\ pendingOrders' = FilterByStatus(os, "pending")
  /\ activeOrders' = FilterByStatus(os, "preparing")
  /\ UNCHANGED completedOrders

\* ------------------------------------------------------------------ Init
Init ==
  /\ orders = << >>
  /\ selectedOrderId = NoSelection
  /\ pendingOrders = FilterByStatus(<< >>, "pending")
  /\ activeOrders = FilterByStatus(<< >>, "preparing")
  /\ completedOrders = FilterByStatus(<< >>, "completed")
  /\ closureOrders = << >>
  /\ readyState = READY_CONNECTING
  /\ mounted = TRUE
  /\ timers = << >>
  /\ now = 0
  /\ lastData = NoData
  /\ validCount = 0
  /\ errorLogged = FALSE

\* --------------------------------------------------------------- actions
\* the browser establishes the connection
StreamOpen ==
  /\ readyState = READY_CONNECTING
  /\ readyState' = READY_OPEN
  /\ UNCHANGED << orders, selectedOrderId, pendingOrders, activeOrders,
                  completedOrders, closureOrders, mounted, timers, now,
                  lastData, validCount, errorLogged >>

\* eventSource.onmessage
OnMessage ==
  /\ readyState = READY_OPEN
  /\ \E raw \in RawPayloads :
       /\ lastData' = raw
       /\ validCount' = IF CarriesRecipe(raw) THEN validCount + 1
                                              ELSE validCount
       /\ IF MessageOutcome(raw) = "ticket"
            THEN /\ Len(orders) < MaxOrders
                 /\ \E uuid \in UUIDs \ { o.id : o \in Range(orders) },
                       time \in now..MaxClock :
                      LET newTicket ==
                            createNewTicket(closureOrders,
                                            JSONParse(raw).value, uuid, time)
                      IN /\ orders' = Append(orders, newTicket)
                         /\ selectedOrderId' = newTicket.id
                         /\ Render(Append(orders, newTicket))
                         /\ now' = time
            ELSE UNCHANGED << orders, selectedOrderId, pendingOrders,
                              activeOrders, completedOrders, now >>
  /\ UNCHANGED << closureOrders, readyState, mounted, timers, errorLogged >>

\* eventSource.onerror
OnError_NoClose ==
  /\ readyState # READY_CLOSED
  /\ errorLogged' = TRUE
  /\ UNCHANGED << readyState, orders, selectedOrderId, pendingOrders,
                  activeOrders, completedOrders, closureOrders, mounted,
                  timers, now, lastData, validCount >>
OnError ==
  /\ readyState # READY_CLOSED
  /\ errorLogged' = TRUE
  /\ readyState' = READY_CLOSED
  /\ UNCHANGED << orders, selectedOrderId, pendingOrders, activeOrders,
                  completedOrders, closureOrders, mounted, timers, now,
                  lastData, validCount >>

\* the effect's cleanup
Unmount ==
  /\ mounted
  /\ mounted' = FALSE
  /\ readyState' = READY_CLOSED
  /\ UNCHANGED << orders, selectedOrderId, pendingOrders, activeOrders,
                  completedOrders, closureOrders, timers, now, lastData,
                  validCount, errorLogged >>

\* TicketItem onClick={() => onSelect(ticket.id)}
SelectTicket ==
  /\ mounted
  /\ \E id \in ClickableIds :
       /\ id # selectedOrderId
       /\ selectedOrderId' = id
  /\ UNCHANGED << orders, pendingOrders, activeOrders, completedOrders,
                  closureOrders, readyState, mounted, timers, now, lastData,
                  validCount, errorLogged >>

\* handleUpdateStatus(id, newStatus)
handleUpdateStatus(id, newStatus) ==
  /\ orders' = MapStatus(orders, id, newStatus)
  /\ Render(MapStatus(orders, id, newStatus))
  /\ timers' = IF newStatus = "completed" THEN Append(timers, id) ELSE timers
  /\ UNCHANGED << selectedOrderId, closureOrders, readyState, mounted, now,
                  lastData, validCount, errorLogged >>

\* the "Start Cooking" / "Pause" button
ClickToggle ==
  /\ mounted
  /\ HasSelectedOrder
  /\ ControlsVisible(selectedOrder)
  /\ handleUpdateStatus(selectedOrder.id, ToggleTarget(selectedOrder))

\* the "Mark as Complete" button
ClickMarkComplete ==
  /\ mounted
  /\ HasSelectedOrder
  /\ ControlsVisible(selectedOrder)
  /\ handleUpdateStatus(selectedOrder.id, "completed")

\* setTimeout(() => setSelectedOrderId(null), 500) expires; on an unmounted
\* component the state update is dropped
TimerFire ==
  /\ timers # << >>
  /\ timers' = Tail(timers)
  /\ selectedOrderId' = IF mounted THEN NoSelection ELSE selectedOrderId
  /\ UNCHANGED << orders, pendingOrders, activeOrders, completedOrders,
                  closureOrders, readyState, mounted, now, lastData,
                  validCount, errorLogged >>

Next ==
  \/ StreamOpen
  \/ OnMessage
  \/ OnError
  \/ Unmount
  \/ SelectTicket
  \/ ClickToggle
  \/ ClickMarkComplete
  \/ TimerFire

Spec == Init /\ [][Next]_vars

\* ---------------------------------------------------------------- claims
Ids(os) == { o.id : o \in Range(os) }
IsTimerStep == timers # << >> /\ timers' = Tail(timers)
AllowedTransitions ==
  { <<"pending", "preparing">>, <<"preparing", "pending">>,
    <<"pending", "completed">>, <<"preparing", "completed">> }
SameButStatus(a, b) == a = [b EXCEPT !.status = a.status]

\* C1: the orderNumber values of the tickets in the store, in arrival
\* order, are 101, 102, 103, ...: each ticket's number is one more than its
\* predecessor's, so no two tickets share a number.
C1_OrderNumbersIncrease ==
  \A i \in 1..Len(orders) : orders[i].orderNumber = FirstOrderNumber + (i - 1)

\* C2: the three derived views partition the store: every ticket is in
\* exactly the view of its status and the view sizes sum to the store size.
C2_ViewsPartition ==
  /\ Len(pendingOrders) + Len(activeOrders) + Len(completedOrders)
       = Len(orders)
  /\ \A o \in Range(orders) :
       /\ (o \in Range(pendingOrders)) = (o.status = "pending")
       /\ (o \in Range(activeOrders)) = (o.status = "preparing")
       /\ (o \in Range(completedOrders)) = (o.status = "completed")

\* C3: a completed ticket is still in the store and still completed after
\* every step, and a second mark-complete update of a ticket leaves the
\* store as the first one made it, with that ticket completed.
C3_CompletedTerminal ==
  /\ [](\A i \in 1..Len(orders) :
          LET once == MapStatus(orders, orders[i].id, "completed")
              twice == MapStatus(once, orders[i].id, "completed")
          IN twice = once /\ twice[i].status = "completed")
  /\ [][ \A i \in 1..Len(orders) :
           orders[i].status = "completed" =>
             /\ i <= Len(orders')
             /\ orders'[i].id = orders[i].id
             /\ orders'[i].status = "completed"
       ]_vars
C3_Witness ==
  /\ \E o \in Range(orders) : o.status = "completed"
  /\ HasSelectedOrder /\ selectedOrder.status = "preparing"
  /\ timers = << >>

\* C4: a ticket's status changes only in a step that is a user action on
\* the selected ticket (not a stream message, not a timer) and only along
\* pending->preparing, preparing->pending, pending->completed or
\* preparing->completed; toggling a pending ticket twice gives pending.
C4_StatusChangesByUserOnly ==
  /\ [](\A i \in 1..Len(orders) :
          orders[i].status = "pending" =>
            LET started ==
                  MapStatus(orders, orders[i].id, ToggleTarget(orders[i]))
                paused ==
                  MapStatus(started, orders[i].id, ToggleTarget(started[i]))
            IN started[i].status = "preparing" /\ paused = orders)
  /\ [][ \A i \in 1..Len(orders) :
           (i <= Len(orders') /\ orders'[i].status # orders[i].status) =>
             /\ mounted
             /\ orders[i].id = selectedOrderId
             /\ <<orders[i].status, orders'[i].status>> \in AllowedTransitions
             /\ Len(orders') = Len(orders)
             /\ lastData' = lastData
             /\ ~IsTimerStep
       ]_vars
C4_Witness ==
  /\ Len(orders) = 2
  /\ orders[1].status = "preparing"
  /\ orders[2].status = "completed"
  /\ selectedOrderId = orders[1].id

\* C5: the store holds as many tickets as payloads with a non-empty meal
\* were handled, and handling such a payload appends one ticket at the end
\* of the store, pending and with the decoded payload as its recipe.
C5_ValidPayloadAppendsTicket ==
  /\ [](Len(orders) = validCount)
  /\ [][ validCount' # validCount =>
           /\ Len(orders') = Len(orders) + 1
           /\ SubSeq(orders', 1, Len(orders)) = orders
           /\ orders'[Len(orders')].status = "pending"
           /\ orders'[Len(orders')].recipe = JSONParse(lastData').value
           /\ orders'[Len(orders')].recipe.fields.meal \in {"Panini", "Soup"}
       ]_vars
C5_Witness ==
  /\ Len(orders) = 2
  /\ validCount = 2
  /\ orders[1].status = "completed"
  /\ orders[1].recipe.fields.meal = "Soup"
  /\ orders[2].recipe.fields.meal = "Panini"
  /\ orders[2].status = "pending"

\* C6: a step that handles an event whose payload does not decode, is null
\* or has no non-empty meal leaves the store and the selection as they
\* were and the subscription open.  (lastData changes only when a message
\* is handled; a repeated identical dropped payload changes no variable.)
C6_BadPayloadDropped ==
  [][ (lastData' # lastData /\ ~CarriesRecipe(lastData')) =>
        /\ orders' = orders
        /\ selectedOrderId' = selectedOrderId
        /\ validCount' = validCount
        /\ readyState' = READY_OPEN
    ]_vars
C6_Witness ==
  /\ lastData \in RawPayloads /\ ~CarriesRecipe(lastData)
  /\ Len(orders) = 1
  /\ selectedOrderId = orders[1].id
  /\ readyState = READY_OPEN

\* C7: once onerror has run the event source is closed; a closed event
\* source stays closed and the store gets no new ticket; the error step
\* leaves the store as it was; an unmounted component's source is closed.
C7_ErrorTerminatesSubscription ==
  /\ []((errorLogged \/ ~mounted) => readyState = READY_CLOSED)
  /\ [][ /\ readyState = READY_CLOSED =>
              (readyState' = READY_CLOSED /\ Len(orders') = Len(orders))
         /\ (errorLogged' /\ ~errorLogged) => orders' = orders
       ]_vars
C7_Witness ==
  /\ errorLogged /\ mounted
  /\ readyState = READY_CLOSED
  /\ Len(orders) = 1
  /\ orders[1].status = "preparing"

\* C8: every step keeps every ticket of the store in place with its id,
\* orderNumber, recipe and timestamp; a status update for an id gives a
\* store of the same length in which only the ticket with that id differs,
\* and only in status, and is the identity for an id not in the store.
C8_UpdateChangesOnlyStatus ==
  /\ [](\A id \in UUIDs, st \in OrderStatus :
          LET updated == MapStatus(orders, id, st) IN
          /\ Len(updated) = Len(orders)
          /\ \A i \in 1..Len(orders) :
               IF orders[i].id = id
                 THEN updated[i] = [orders[i] EXCEPT !.status = st]
                 ELSE updated[i] = orders[i]
          /\ id \notin Ids(orders) => updated = orders)
  /\ [][ /\ Len(orders') >= Len(orders)
         /\ \A i \in 1..Len(orders) :
              i <= Len(orders') => SameButStatus(orders'[i], orders[i])
       ]_vars
C8_Witness ==
  /\ Len(orders) = 2
  /\ orders[1].timestamp < now
  /\ orders[1].status = "completed"
  /\ orders[2].status = "pending"

\* C9: when the delayed deselect runs, the selection becomes none if the
\* selected ticket is the one that was completed and is left alone if
\* another ticket is selected.
C9_DeselectOnlyCompletedTicket ==
  [][ (IsTimerStep /\ mounted) =>
        IF selectedOrderId = Head(timers)
          THEN selectedOrderId' = NoSelection
          ELSE selectedOrderId' = selectedOrderId
    ]_vars

\* C10: the selected id is none or the id of a ticket in the store, and a
\* step that adds a ticket makes that ticket the selected one.
C10_NewTicketSelected ==
  /\ [](selectedOrderId = NoSelection \/ HasSelectedOrder)
  /\ [][ Len(orders') > Len(orders) =>
           selectedOrderId' = orders'[Len(orders')].id ]_vars
C10_Witness ==
  /\ Len(orders) = 2
  /\ orders[1].status = "preparing"
  /\ selectedOrderId = orders[2].id
  /\ timers = << >>

====
